---------------------------- MODULE Spec2Model ----------------------------
(***************************************************************************)
(* A model of transaction_simulator.py: the Database, the LockManager, the *)
(* RecoveryManager and the round-based scheduler simulate_transactions.    *)
(*                                                                         *)
(* Three specifications share the definitions of the classes:              *)
(*   Spec        the simulation run started by __main__ (files cleared);   *)
(*   SpecLock    arbitrary calls of the LockManager's three methods;       *)
(*   SpecReplay  a restart: load_database, load_log, apply_log.            *)
(***************************************************************************)
EXTENDS Integers, Sequences, FiniteSets, TLC

VARIABLES
    args,                  \* the namespace returned by parse_arguments
    db,                    \* Database.data
    lock_manager,          \* LockManager: shared_locks, exclusive_locks
    log,                   \* RecoveryManager.log
    active_transactions,   \* the list of simulate_transactions
    blocked_transactions,  \* the dict tid -> remaining cycles
    cycle,                 \* the loop counter of simulate_transactions
    pc,                    \* position in simulate_transactions
    pending,               \* what is left of active_transactions[:] in the for loop
    log_file,              \* contents of log.csv
    db_file,               \* contents of db.csv
    cycle_trace,           \* history: blocked_transactions on entry to the for loop,
                           \*   the iterations of the loop made so far this cycle, the
                           \*   tids waiting since a failed acquisition (now, and on
                           \*   entry to the for loop) with the operation that failed,
                           \*   the tid admitted this cycle, and which admission (the
                           \*   n-th of the run) each list entry and each lock is of
    call,                  \* SpecLock: the method call made last
    ret                    \* SpecLock: what that call returned

vars == <<args, db, lock_manager, log, active_transactions, blocked_transactions,
          cycle, pc, pending, log_file, db_file, cycle_trace, call, ret>>

---------------------------------------------------------------------------
(* Bounds of the model. *)

\* Slots of the database (32 in the program: the model keeps the list short).
NumSlots == 2
\* Largest args.cycles of a run.
MaxCycles == 3
\* Largest args.trans_size of a run.
MaxTransSize == 3
\* Largest args.timeout of a run.
MaxTimeout == 1
\* Transaction ids used by the callers of SpecLock.
MaxTid == 2
\* Longest persisted log of SpecReplay.
MaxLogLen == 2

Slots == 0 .. (NumSlots - 1)
Tids == 1 .. MaxTid

\* Python's None: never a tid (len(active_transactions) + 1 >= 1) and never a
\* value read from the database.
None == -1

---------------------------------------------------------------------------
(* Python values. *)

Digits == <<"0", "1", "2", "3", "4", "5", "6", "7", "8", "9">>

RECURSIVE StrNat(_)
StrNat(n) ==
    IF n < 10 THEN <<Digits[n + 1]>>
    ELSE StrNat(n \div 10) \o <<Digits[(n % 10) + 1]>>

\* str(n) of an int: the decimal digits, as a sequence of characters.
py_str(n) == IF n < 0 THEN <<"-">> \o StrNat(-n) ELSE StrNat(n)

DigitVal(c) == CHOOSE d \in 0 .. 9 : Digits[d + 1] = c

RECURSIVE IntNat(_)
IntNat(s) ==
    IF Len(s) = 0 THEN 0
    ELSE IntNat(SubSeq(s, 1, Len(s) - 1)) * 10 + DigitVal(s[Len(s)])

\* int(s) of a string of decimal digits with an optional sign.
py_int(s) == IF s[1] = "-" THEN -IntNat(Tail(s)) ELSE IntNat(s)

\* The position list[i] names: a negative i counts from the end.
PyIndex(i) == IF i < 0 THEN i + NumSlots ELSE i

\* The outcomes of `random.random() < p`: random() is in [0, 1), so p = 0 never
\* succeeds and p = 1 always does. Probabilities are counted in halves.
Probs == {0, 1, 2}
Randoms == {0, 1}
Bernoulli(p) == {r < p : r \in Randoms}

---------------------------------------------------------------------------
(* class Database *)

ZeroStore == [i \in Slots |-> 0]

Database_read(data, index) == data[PyIndex(index)]

Database_write(data, index, value) == [data EXCEPT ![PyIndex(index)] = value]

---------------------------------------------------------------------------
(* class LockManager *)

LockManager_init ==
    [shared_locks    |-> [i \in Slots |-> {}],
     exclusive_locks |-> [i \in Slots |-> None]]

\* Mutant: the shared lock is granted whatever the exclusive holder.
acquire_shared_lock_ignores_exclusive(lm, tid, index) ==
    [lm  |-> [lm EXCEPT !.shared_locks[index] = @ \cup {tid}],
     ret |-> TRUE]

acquire_shared_lock(lm, tid, index) ==
    IF lm.exclusive_locks[index] = None
    THEN [lm  |-> [lm EXCEPT !.shared_locks[index] = @ \cup {tid}],
          ret |-> TRUE]
    ELSE [lm |-> lm, ret |-> FALSE]

\* Mutant: a textbook upgrade, granted when tid is the only shared holder.
acquire_exclusive_lock_upgrades(lm, tid, index) ==
    IF /\ lm.exclusive_locks[index] = None
       /\ lm.shared_locks[index] \subseteq {tid}
    THEN [lm  |-> [lm EXCEPT !.exclusive_locks[index] = tid],
          ret |-> TRUE]
    ELSE [lm |-> lm, ret |-> FALSE]

acquire_exclusive_lock(lm, tid, index) ==
    IF /\ lm.exclusive_locks[index] = None
       /\ lm.shared_locks[index] = {}
    THEN [lm  |-> [lm EXCEPT !.exclusive_locks[index] = tid],
          ret |-> TRUE]
    ELSE [lm |-> lm, ret |-> FALSE]

\* Mutant: only the exclusive locks are released.
release_locks_keeps_shared(lm, tid) ==
    [lm EXCEPT !.exclusive_locks =
        [i \in Slots |-> IF lm.exclusive_locks[i] = tid THEN None
                         ELSE lm.exclusive_locks[i]]]

release_locks(lm, tid) ==
    [shared_locks    |-> [i \in Slots |-> lm.shared_locks[i] \ {tid}],
     exclusive_locks |-> [i \in Slots |-> IF lm.exclusive_locks[i] = tid THEN None
                                          ELSE lm.exclusive_locks[i]]]

---------------------------------------------------------------------------
(* The csv module, for rows whose fields hold no comma, quote or line break. *)

RECURSIVE JoinComma(_)
JoinComma(fields) ==
    IF Len(fields) = 0 THEN <<>>
    ELSE IF Len(fields) = 1 THEN fields[1]
    ELSE fields[1] \o <<",">> \o JoinComma(Tail(fields))

\* The fields of a line, read left to right; cur is the field being read.
RECURSIVE SplitFrom(_, _)
SplitFrom(line, cur) ==
    IF Len(line) = 0 THEN <<cur>>
    ELSE IF Head(line) = "," THEN <<cur>> \o SplitFrom(Tail(line), <<>>)
    ELSE SplitFrom(Tail(line), Append(cur, Head(line)))

SplitComma(line) == SplitFrom(line, <<>>)

csv_writerows(rows) == [i \in 1 .. Len(rows) |-> JoinComma(rows[i])]

csv_reader(file) == [i \in 1 .. Len(file) |-> SplitComma(file[i])]

\* Database.save_database: one row, str() of each value in slot order.
save_database(data) ==
    <<JoinComma([i \in 1 .. NumSlots |-> py_str(data[i - 1])])>>

\* Database.load_database: int() of each field of the first row.
load_database(file) ==
    LET row == csv_reader(file)[1]
    IN  [i \in Slots |-> py_int(row[i + 1])]

---------------------------------------------------------------------------
(* class RecoveryManager *)

OpStart == <<"S">>
OpData == <<"F">>
OpRollback == <<"R">>
OpCommit == <<"C">>

load_log(file) == csv_reader(file)

write_log(lg) == csv_writerows(lg)

log_operation(lg, tid, did, operation, value) ==
    IF value # None
    THEN Append(lg, <<py_str(tid), py_str(did), py_str(value), operation>>)
    ELSE Append(lg, <<py_str(tid), py_str(did), operation>>)

\* Mutant: a replayed write stores 0.
ApplyEntry_writes_zero(data, entry) ==
    IF entry[Len(entry)] \in {OpData, OpRollback}
    THEN Database_write(data, py_int(entry[2]), 0)
    ELSE data

\* The body of apply_log's loop: tid, did, *rest = entry; operation = rest[-1].
ApplyEntry(data, entry) ==
    LET did == entry[2]
        operation == entry[Len(entry)]
    IN  IF operation = OpData THEN Database_write(data, py_int(did), 1)
        ELSE IF operation = OpRollback THEN Database_write(data, py_int(did), 0)
        ELSE data

RECURSIVE apply_log(_, _)
apply_log(lg, data) ==
    IF Len(lg) = 0 THEN data
    ELSE apply_log(Tail(lg), ApplyEntry(data, Head(lg)))

---------------------------------------------------------------------------
(* SpecLock: any sequence of calls of the three methods. *)

NoCall == [op |-> "none", tid |-> None, index |-> 0]

NoTrace ==
    [blocked |-> <<>>, steps |-> <<>>, waiting |-> {}, waiting0 |-> {},
     failed_op |-> <<>>, failed_op0 |-> <<>>, admitted |-> None,
     inst_active |-> <<>>, inst_pending |-> <<>>, lock_inst |-> {}]

NoArgs == [cycles |-> 0, trans_size |-> 0, start_prob |-> 0, write_prob |-> 0,
           rollback_prob |-> 0, timeout |-> 0]

SimIdle ==
    /\ args = NoArgs
    /\ db = ZeroStore
    /\ log = <<>>
    /\ active_transactions = <<>>
    /\ blocked_transactions = <<>>
    /\ cycle = 0
    /\ pending = <<>>
    /\ log_file = <<>>
    /\ db_file = save_database(ZeroStore)
    /\ cycle_trace = NoTrace

SimUnchanged ==
    UNCHANGED <<args, db, log, active_transactions, blocked_transactions, cycle,
                pc, pending, log_file, db_file, cycle_trace>>

InitLock ==
    /\ SimIdle
    /\ pc = "lock"
    /\ lock_manager = LockManager_init
    /\ call = NoCall
    /\ ret = FALSE

CallAcquireShared(tid, index) ==
    /\ pc = "lock"
    /\ call' = [op |-> "acquire_shared_lock", tid |-> tid, index |-> index]
    /\ lock_manager' = acquire_shared_lock(lock_manager, tid, index).lm
    /\ ret' = acquire_shared_lock(lock_manager, tid, index).ret
    /\ SimUnchanged

CallAcquireExclusive(tid, index) ==
    /\ pc = "lock"
    /\ call' = [op |-> "acquire_exclusive_lock", tid |-> tid, index |-> index]
    /\ lock_manager' = acquire_exclusive_lock(lock_manager, tid, index).lm
    /\ ret' = acquire_exclusive_lock(lock_manager, tid, index).ret
    /\ SimUnchanged

\* release_locks returns nothing: ret records that it returned at all.
CallRelease(tid) ==
    /\ pc = "lock"
    /\ call' = [op |-> "release_locks", tid |-> tid, index |-> 0]
    /\ lock_manager' = release_locks(lock_manager, tid)
    /\ ret' = TRUE
    /\ SimUnchanged

NextLock ==
    \/ \E tid \in Tids, index \in Slots : CallAcquireShared(tid, index)
    \/ \E tid \in Tids, index \in Slots : CallAcquireExclusive(tid, index)
    \/ \E tid \in Tids : CallRelease(tid)

SpecLock == InitLock /\ [][NextLock]_vars


---------------------------------------------------------------------------
(* simulate_transactions, started by __main__ after clear_log_file and       *)
(* clear_database_file.                                                      *)

\* list.remove(x): the first occurrence goes.
RECURSIVE ListRemove(_, _)
ListRemove(list, x) ==
    IF Len(list) = 0 THEN list
    ELSE IF Head(list) = x THEN Tail(list)
    ELSE <<Head(list)>> \o ListRemove(Tail(list), x)

DictSet(d, k, v) == [x \in DOMAIN d \cup {k} |-> IF x = k THEN v ELSE d[x]]

DictDel(d, k) == [x \in DOMAIN d \ {k} |-> d[x]]

\* What a record of the log is, by its fields.
IsRecordOf(entry, tid) == entry[1] = py_str(tid)
IsStart(entry) == Len(entry) = 3 /\ entry[3] = OpStart
IsWrite(entry) == Len(entry) = 3 /\ entry[3] = OpData
IsRead(entry) == Len(entry) = 4 /\ entry[4] = OpData
IsRollback(entry) == Len(entry) = 3 /\ entry[3] = OpRollback
IsCommit(entry) == Len(entry) = 3 /\ entry[3] = OpCommit

\* The tids of the Start records of lg, in log order.
RECURSIVE StartTids(_)
StartTids(lg) ==
    IF Len(lg) = 0 THEN <<>>
    ELSE IF IsStart(Head(lg)) THEN <<py_int(Head(lg)[1])>> \o StartTids(Tail(lg))
    ELSE StartTids(Tail(lg))

\* The tid of an admitted transaction.
NewTid(active) == Len(active) + 1

ArgsSet ==
    [cycles        : 1 .. MaxCycles,
     trans_size    : 1 .. MaxTransSize,
     start_prob    : Probs,
     write_prob    : Probs,
     rollback_prob : Probs,
     timeout       : 0 .. MaxTimeout]

Init ==
    /\ args \in ArgsSet
    /\ pc = "start"
    /\ log_file = <<>>
    /\ db_file = save_database(ZeroStore)
    /\ db = ZeroStore
    /\ lock_manager = LockManager_init
    /\ log = <<>>
    /\ active_transactions = <<>>
    /\ blocked_transactions = <<>>
    /\ cycle = 0
    /\ pending = <<>>
    /\ cycle_trace = NoTrace
    /\ call = NoCall
    /\ ret = FALSE

\* Lines 192-201: the objects are built from the files and the log is replayed.
Startup ==
    /\ pc = "start"
    /\ log' = load_log(log_file)
    /\ db' = apply_log(load_log(log_file), load_database(db_file))
    /\ lock_manager' = LockManager_init
    /\ active_transactions' = <<>>
    /\ blocked_transactions' = <<>>
    /\ cycle' = 0
    /\ pc' = "while"
    /\ UNCHANGED <<args, pending, log_file, db_file, cycle_trace, call, ret>>

\* Lines 203-210: the admission of a cycle, and the copy the for loop scans.
Admit ==
    /\ pc = "while"
    /\ cycle < args.cycles
    /\ \E start \in Bernoulli(args.start_prob) :
          LET tid == NewTid(active_transactions)
          IN  /\ active_transactions' =
                    IF start THEN Append(active_transactions, tid)
                    ELSE active_transactions
              /\ log' = IF start THEN log_operation(log, tid, -1, OpStart, None)
                        ELSE log
    /\ pending' = active_transactions'
    /\ LET started == Len(active_transactions') > Len(active_transactions)
           insts == IF started
                    THEN Append(cycle_trace.inst_active, Len(StartTids(log')))
                    ELSE cycle_trace.inst_active
       IN  cycle_trace' =
               [cycle_trace EXCEPT
                   !.blocked = blocked_transactions,
                   !.steps = <<>>,
                   !.waiting0 = cycle_trace.waiting,
                   !.failed_op0 = cycle_trace.failed_op,
                   !.admitted = IF started THEN NewTid(active_transactions)
                                ELSE None,
                   !.inst_active = insts,
                   !.inst_pending = insts]
    /\ pc' = "for"
    /\ UNCHANGED <<args, db, lock_manager, blocked_transactions, cycle, log_file,
                   db_file, call, ret>>

\* Lines 212-215: a transaction still counting down is passed over.
StepSkip ==
    /\ pc = "for"
    /\ Len(pending) > 0
    /\ LET tid == Head(pending)
       IN  /\ tid \in DOMAIN blocked_transactions
           /\ blocked_transactions[tid] > 0
           /\ blocked_transactions' =
                  [blocked_transactions EXCEPT ![tid] = @ - 1]
           /\ cycle_trace' =
                  [cycle_trace EXCEPT
                      !.steps = Append(@,
                          [tid |-> tid, skipped |-> TRUE, did |-> None,
                           is_write |-> FALSE, acquired |-> FALSE,
                           ended |-> "none",
                           n_active |-> Len(active_transactions),
                           inst |-> Head(cycle_trace.inst_pending),
                           holder |-> None, sharers |-> {}]),
                      !.inst_pending = Tail(@)]
    /\ pending' = Tail(pending)
    /\ UNCHANGED <<args, db, lock_manager, log, active_transactions, cycle, pc,
                   log_file, db_file, call, ret>>

\* Mutant: a write goes ahead whether or not the exclusive lock was granted.
Operate_writes_unlocked(st, tid, did, is_write) ==
    LET blocked0 == IF tid \in DOMAIN st.blocked THEN DictDel(st.blocked, tid)
                    ELSE st.blocked
        r == IF is_write THEN acquire_exclusive_lock(st.lm, tid, did)
             ELSE acquire_shared_lock(st.lm, tid, did)
    IN  [lm       |-> r.lm,
         acquired |-> r.ret \/ is_write,
         db       |-> IF is_write THEN Database_write(st.db, did, 1) ELSE st.db,
         log      |-> IF is_write
                      THEN log_operation(st.log, tid, did, OpData, None)
                      ELSE IF r.ret
                      THEN log_operation(st.log, tid, did, OpData,
                                         Database_read(st.db, did))
                      ELSE st.log,
         blocked  |-> IF r.ret \/ is_write THEN blocked0
                      ELSE DictSet(blocked0, tid, st.timeout),
         active   |-> st.active]

\* Lines 216-236: the operation of one iteration, on slot did.
Operate(st, tid, did, is_write) ==
    LET blocked0 == IF tid \in DOMAIN st.blocked THEN DictDel(st.blocked, tid)
                    ELSE st.blocked
        r == IF is_write THEN acquire_exclusive_lock(st.lm, tid, did)
             ELSE acquire_shared_lock(st.lm, tid, did)
    IN  [lm       |-> r.lm,
         acquired |-> r.ret,
         db       |-> IF is_write /\ r.ret THEN Database_write(st.db, did, 1)
                      ELSE st.db,
         log      |-> IF ~r.ret THEN st.log
                      ELSE IF is_write
                      THEN log_operation(st.log, tid, did, OpData, None)
                      ELSE log_operation(st.log, tid, did, OpData,
                                         Database_read(st.db, did)),
         blocked  |-> IF r.ret THEN blocked0
                      ELSE DictSet(blocked0, tid, st.timeout),
         active   |-> st.active]

\* Mutant: the rollback draw is ignored and no transaction is rolled back.
Rollback_not_taken(st, tid, do_rollback) == st

\* Mutant: a rollback leaves the locks of the transaction in place.
Rollback_keeps_locks(st, tid, do_rollback) ==
    IF do_rollback
    THEN [st EXCEPT !.log = log_operation(st.log, tid, -1, OpRollback, None),
                    !.active = ListRemove(st.active, tid),
                    !.ended = "R"]
    ELSE st

\* Lines 238-243: the rollback of one iteration.
Rollback(st, tid, do_rollback) ==
    IF do_rollback
    THEN [st EXCEPT !.log = log_operation(st.log, tid, -1, OpRollback, None),
                    !.lm = release_locks(st.lm, tid),
                    !.active = ListRemove(st.active, tid),
                    !.ended = "R"]
    ELSE st

\* Mutant: the commit waits for more than trans_size active transactions.
Commit_above_size(st, tid, trans_size) ==
    IF Len(st.active) > trans_size /\ st.ended = "none"
    THEN [st EXCEPT !.log = log_operation(st.log, tid, -1, OpCommit, None),
                    !.lm = release_locks(st.lm, tid),
                    !.active = ListRemove(st.active, tid),
                    !.ended = "C"]
    ELSE st

\* Mutant: the commit is one transaction late.
Commit_one_late(st, tid, trans_size) ==
    IF Len(st.active) >= trans_size + 1 /\ st.ended = "none"
    THEN [st EXCEPT !.log = log_operation(st.log, tid, -1, OpCommit, None),
                    !.lm = release_locks(st.lm, tid),
                    !.active = ListRemove(st.active, tid),
                    !.ended = "C"]
    ELSE st

\* Lines 245-250: the commit of one iteration.
Commit(st, tid, trans_size) ==
    IF Len(st.active) >= trans_size /\ st.ended = "none"
    THEN [st EXCEPT !.log = log_operation(st.log, tid, -1, OpCommit, None),
                    !.lm = release_locks(st.lm, tid),
                    !.active = ListRemove(st.active, tid),
                    !.ended = "C"]
    ELSE st

\* Lines 216-250: an iteration of the for loop that attempts an operation.
StepOperate ==
    /\ pc = "for"
    /\ Len(pending) > 0
    /\ LET tid == Head(pending)
       IN  /\ ~(tid \in DOMAIN blocked_transactions /\ blocked_transactions[tid] > 0)
           /\ \E did \in Slots, is_write \in Bernoulli(args.write_prob),
                 do_rollback \in Bernoulli(args.rollback_prob) :
                 LET st0 == [lm |-> lock_manager, db |-> db, log |-> log,
                             blocked |-> blocked_transactions,
                             active |-> active_transactions,
                             timeout |-> args.timeout]
                     st1 == Operate(st0, tid, did, is_write)
                     st2 == Rollback([st1 EXCEPT !.acquired = st1.acquired]
                                        @@ [ended |-> "none"], tid, do_rollback)
                     st3 == Commit(st2, tid, args.trans_size)
                     inst == Head(cycle_trace.inst_pending)
                     blocks == ~st1.acquired /\ st3.ended = "none"
                 IN  /\ lock_manager' = st3.lm
                     /\ db' = st3.db
                     /\ log' = st3.log
                     /\ blocked_transactions' = st3.blocked
                     /\ active_transactions' = st3.active
                     /\ cycle_trace' =
                            [cycle_trace EXCEPT
                                !.steps = Append(@,
                                    [tid |-> tid, skipped |-> FALSE, did |-> did,
                                     is_write |-> is_write,
                                     acquired |-> st1.acquired,
                                     ended |-> st3.ended,
                                     n_active |-> Len(st2.active),
                                     inst |-> inst,
                                     holder |-> st1.lm.exclusive_locks[did],
                                     sharers |-> st1.lm.shared_locks[did]]),
                                !.waiting =
                                    IF blocks THEN @ \cup {tid} ELSE @ \ {tid},
                                !.failed_op =
                                    IF blocks
                                    THEN DictSet(@, tid, [did |-> did,
                                                          is_write |-> is_write,
                                                          inst |-> inst])
                                    ELSE DictDel(@, tid),
                                !.inst_pending = Tail(@),
                                !.inst_active =
                                    IF st3.ended = "none" THEN @
                                    ELSE ListRemove(@, inst),
                                !.lock_inst =
                                    LET got == IF st1.acquired
                                               THEN @ \cup {[inst |-> inst,
                                                             tid |-> tid,
                                                             slot |-> did,
                                                             exclusive |-> is_write]}
                                               ELSE @
                                    IN  IF st3.ended = "none" THEN got
                                        ELSE {r \in got : r.tid # tid}]
    /\ pending' = Tail(pending)
    /\ UNCHANGED <<args, cycle, pc, log_file, db_file, call, ret>>

\* Lines 252-255: the periodic flush and the end of the cycle.
EndCycle ==
    /\ pc = "for"
    /\ Len(pending) = 0
    /\ log_file' = IF cycle % 25 = 0 THEN write_log(log) ELSE log_file
    /\ cycle' = cycle + 1
    /\ pc' = "while"
    /\ UNCHANGED <<args, db, lock_manager, log, active_transactions,
                   blocked_transactions, pending, db_file, cycle_trace, call, ret>>

\* Lines 257-259: the final flush and the save of the database.
Shutdown ==
    /\ pc = "while"
    /\ ~(cycle < args.cycles)
    /\ log_file' = write_log(log)
    /\ db_file' = save_database(db)
    /\ pc' = "done"
    /\ UNCHANGED <<args, db, lock_manager, log, active_transactions,
                   blocked_transactions, cycle, pending, cycle_trace, call, ret>>

Next ==
    \/ Startup
    \/ Admit
    \/ StepSkip
    \/ StepOperate
    \/ EndCycle
    \/ Shutdown

Spec == Init /\ [][Next]_vars

---------------------------------------------------------------------------
(* SpecReplay: a restart. The files hold what an earlier run saved; the      *)
(* objects are built from them and the log is replayed onto the database.    *)

\* The records log_operation writes, as simulate_transactions calls it.
StartRecord(tid) == log_operation(<<>>, tid, -1, OpStart, None)[1]
WriteRecord(tid, did) == log_operation(<<>>, tid, did, OpData, None)[1]
ReadRecord(tid, did, value) == log_operation(<<>>, tid, did, OpData, value)[1]
RollbackRecord(tid) == log_operation(<<>>, tid, -1, OpRollback, None)[1]
CommitRecord(tid) == log_operation(<<>>, tid, -1, OpCommit, None)[1]

Values == {0, 1}
Stores == [Slots -> Values]

\* apply_log does not look at the tid of a record: two tids are drawn.
ReplayTids == {1, 2}

LogRecords ==
    UNION {{StartRecord(t), RollbackRecord(t), CommitRecord(t)}
              \cup {WriteRecord(t, d) : d \in Slots}
              \cup {ReadRecord(t, d, v) : d \in Slots, v \in Values}
           : t \in ReplayTids}

Logs == UNION {[1 .. n -> LogRecords] : n \in 0 .. MaxLogLen}

InitReplay ==
    /\ args = NoArgs
    /\ pc = "start"
    /\ log_file \in {write_log(lg) : lg \in Logs}
    /\ db_file \in {save_database(d) : d \in Stores}
    /\ db = ZeroStore
    /\ lock_manager = LockManager_init
    /\ log = <<>>
    /\ active_transactions = <<>>
    /\ blocked_transactions = <<>>
    /\ cycle = 0
    /\ pending = <<>>
    /\ cycle_trace = NoTrace
    /\ call = NoCall
    /\ ret = FALSE

NextReplay == Startup

SpecReplay == InitReplay /\ [][NextReplay]_vars

---------------------------------------------------------------------------
(* Claims about the LockManager, checked under SpecLock. *)

Holds(lm, tid, index) ==
    lm.exclusive_locks[index] = tid \/ tid \in lm.shared_locks[index]

\* C1: after any sequence of acquire_shared_lock, acquire_exclusive_lock and
\* release_locks calls, no slot has both an exclusive holder and a non-empty
\* shared-lock set.
C1_LockModesExclusive ==
    \A i \in Slots :
        ~(lock_manager.exclusive_locks[i] # None /\ lock_manager.shared_locks[i] # {})

\* C1 witness: a shared lock was just refused on an exclusively held slot while
\* another slot is shared-locked.
C1_Witness ==
    /\ call.op = "acquire_shared_lock"
    /\ ret = FALSE
    /\ lock_manager.exclusive_locks[call.index] # None
    /\ \E i \in Slots : lock_manager.shared_locks[i] # {}

\* C6: acquire_shared_lock(tid, slot) returns True and adds tid to the slot's
\* shared set iff the slot has no exclusive holder; acquire_exclusive_lock(tid,
\* slot) returns True and makes tid the holder iff the slot has no exclusive
\* holder and an empty shared set; a failing call returns False and leaves the
\* lock table unchanged.
C6_LockCompatibility ==
    [][/\ call'.op = "acquire_shared_lock" =>
            LET i == call'.index
                t == call'.tid
            IN  /\ ret' = (lock_manager.exclusive_locks[i] = None)
                /\ ret' => /\ lock_manager'.shared_locks[i] =
                                  lock_manager.shared_locks[i] \cup {t}
                           /\ \A j \in Slots \ {i} :
                                  lock_manager'.shared_locks[j] =
                                      lock_manager.shared_locks[j]
                           /\ lock_manager'.exclusive_locks =
                                  lock_manager.exclusive_locks
                /\ ~ret' => lock_manager' = lock_manager
       /\ call'.op = "acquire_exclusive_lock" =>
            LET i == call'.index
                t == call'.tid
            IN  /\ ret' = (/\ lock_manager.exclusive_locks[i] = None
                           /\ lock_manager.shared_locks[i] = {})
                /\ ret' => /\ lock_manager'.exclusive_locks[i] = t
                           /\ \A j \in Slots \ {i} :
                                  lock_manager'.exclusive_locks[j] =
                                      lock_manager.exclusive_locks[j]
                           /\ lock_manager'.shared_locks = lock_manager.shared_locks
                /\ ~ret' => lock_manager' = lock_manager
      ]_vars

\* C6 witness: an exclusive lock was refused to the transaction that is itself
\* the only shared holder of the slot.
C6_Witness ==
    /\ call.op = "acquire_exclusive_lock"
    /\ ret = FALSE
    /\ lock_manager.shared_locks[call.index] = {call.tid}
    /\ lock_manager.exclusive_locks[call.index] = None

\* C7: release_locks(tid) returns in every lock-table state; afterwards tid holds
\* no lock on any slot, the locks of every other tid are as before, and a second
\* call in a row changes nothing.
C7_ReleaseIdempotent ==
    [][call'.op = "release_locks" =>
            LET t == call'.tid
            IN  /\ ret' = TRUE
                /\ \A i \in Slots : ~Holds(lock_manager', t, i)
                /\ \A i \in Slots : \A u \in Tids \ {t} :
                       /\ (lock_manager'.exclusive_locks[i] = u) =
                              (lock_manager.exclusive_locks[i] = u)
                       /\ (u \in lock_manager'.shared_locks[i]) =
                              (u \in lock_manager.shared_locks[i])
                /\ (\A i \in Slots : ~Holds(lock_manager, t, i)) =>
                       lock_manager' = lock_manager
                /\ release_locks(lock_manager', t) = lock_manager'
                /\ call = call' => lock_manager' = lock_manager
      ]_vars

\* C7 witness: release_locks has returned and locks of the other transaction,
\* one shared and one exclusive, are still in place.
C7_Witness ==
    /\ call.op = "release_locks"
    /\ \E u \in Tids \ {call.tid} : \E i, j \in Slots :
           /\ lock_manager.exclusive_locks[i] = u
           /\ u \in lock_manager.shared_locks[j]

---------------------------------------------------------------------------
(* Claims about replay. *)

\* The end of a cycle of the while loop, and the end of the run.
CycleDone == (pc = "while" /\ cycle > 0) \/ pc = "done"

\* C2: in a run started from an empty log and an all-zero store, at the end of
\* every cycle and at shutdown, replaying the log accumulated so far onto an
\* all-zero store yields the current contents of the store.
C2_ReplayReconstructsStore ==
    CycleDone => apply_log(log, ZeroStore) = db

\* C3: replaying a log of the scheduler that holds only Start, Read and Commit
\* records leaves every slot of every store unchanged.
C3_ReplayNoOps ==
    (\A i \in 1 .. Len(log) : IsStart(log[i]) \/ IsRead(log[i]) \/ IsCommit(log[i]))
        => \A store \in Stores : apply_log(log, store) = store

\* The slot of tid's latest Read/Write record before position i of lg.
TouchedBefore(lg, i, tid) ==
    {j \in 1 .. (i - 1) : IsRecordOf(lg[j], tid) /\ (IsRead(lg[j]) \/ IsWrite(lg[j]))}

LastTouched(lg, i, tid) ==
    LET j == CHOOSE j \in TouchedBefore(lg, i, tid) :
                 \A k \in TouchedBefore(lg, i, tid) : k <= j
    IN  py_int(lg[j][2])

\* C4: replaying a Rollback(tid) record sets the slot of tid's latest preceding
\* Read/Write record to 0 and changes no other slot.
C4_RollbackUndoesLastTouched ==
    \A i \in 1 .. Len(log) : \A tid \in 1 .. MaxCycles :
        (/\ IsRollback(log[i])
         /\ IsRecordOf(log[i], tid)
         /\ TouchedBefore(log, i, tid) # {})
        => \A store \in Stores :
               LET before == apply_log(SubSeq(log, 1, i - 1), store)
               IN  apply_log(SubSeq(log, 1, i), store) =
                       [before EXCEPT ![LastTouched(log, i, tid)] = 0]

\* C5: replaying a log that holds only Write records sets exactly the slots those
\* records name to 1 and leaves every other slot as the store had it; replaying
\* the empty log leaves the store as it was.
C5_ReplayWrites ==
    (pc = "while" /\ \A i \in 1 .. Len(log) : IsWrite(log[i]))
        => LET store == load_database(db_file)
               named == {d \in Slots : \E i \in 1 .. Len(log) : \E t \in ReplayTids :
                            log[i] = WriteRecord(t, d)}
           IN  /\ \A i \in 1 .. Len(log) : \E t \in ReplayTids, d \in Slots :
                      log[i] = WriteRecord(t, d)
               /\ db = [d \in Slots |-> IF d \in named THEN 1 ELSE store[d]]
               /\ Len(log) = 0 => db = store

\* C5 witness: a log of one or more Write records was replayed onto a store in
\* which a slot the log does not name holds 1 and a slot it names held 0.
C5_Witness ==
    /\ pc = "while"
    /\ Len(log) > 0
    /\ \A i \in 1 .. Len(log) : IsWrite(log[i])
    /\ \E d, e \in Slots :
           /\ load_database(db_file)[d] = 0
           /\ db[d] = 1
           /\ load_database(db_file)[e] = 1
           /\ \A i \in 1 .. Len(log) : py_int(log[i][2]) # e

---------------------------------------------------------------------------
(* Claims about the scheduler, checked under Spec. *)

\* C8: every admitted transaction receives a tid strictly greater than every tid
\* assigned earlier in the run.
C8_FreshTids ==
    LET tids == StartTids(log)
    IN  \A i, j \in 1 .. Len(tids) : i < j => tids[i] < tids[j]

IsTerminal(entry) == IsRollback(entry) \/ IsCommit(entry)

\* C9: in the log of a run started from an empty log, each tid has at most one
\* terminal record and no record of a tid follows that tid's terminal record.
C9_OneTerminalRecord ==
    \A i, j \in 1 .. Len(log) :
        (i < j /\ IsTerminal(log[i])) => log[j][1] # log[i][1]

\* The for loop of the current cycle has scanned its whole copy.
LoopDone == pc = "for" /\ Len(pending) = 0

StepsOf(tid) ==
    {k \in 1 .. Len(cycle_trace.steps) : cycle_trace.steps[k].tid = tid}

\* The cycles a transaction still has to wait: an absent entry is no wait.
Counter(blocked, tid) == IF tid \in DOMAIN blocked THEN blocked[tid] ELSE 0

\* C10: at the end of the for loop of every cycle,
\*  - a transaction whose lock acquisition failed in this cycle, and that was
\*    neither committed nor rolled back in it, is blocked with args.timeout;
\*  - a transaction that entered the cycle waiting since such a failure, with a
\*    counter k > 0, was skipped and its counter is k - 1;
\*  - a transaction that entered the cycle waiting since such a failure, with a
\*    counter of 0, attempted an operation.
\* So a failure is followed by exactly args.timeout skipped cycles and an attempt
\* in the cycle after them.
C10_BlockedForTimeout ==
    LoopDone =>
        /\ \A k \in 1 .. Len(cycle_trace.steps) :
               LET step == cycle_trace.steps[k]
               IN  (~step.skipped /\ ~step.acquired /\ step.ended = "none")
                       => Counter(blocked_transactions, step.tid) = args.timeout
        /\ \A tid \in cycle_trace.waiting0 :
               IF Counter(cycle_trace.blocked, tid) > 0
               THEN /\ \A k \in StepsOf(tid) : cycle_trace.steps[k].skipped
                    /\ Counter(blocked_transactions, tid) =
                           Counter(cycle_trace.blocked, tid) - 1
               ELSE /\ StepsOf(tid) # {}
                    /\ \A k \in StepsOf(tid) : ~cycle_trace.steps[k].skipped

---------------------------------------------------------------------------
(* Claims about the steps of the scheduler, checked under Spec. *)

Last(seq) == seq[Len(seq)]

Range(seq) == {seq[i] : i \in 1 .. Len(seq)}

Occurrences(seq, x) == Cardinality({i \in 1 .. Len(seq) : seq[i] = x})

\* The records a step appends to the log.
NewRecords == SubSeq(log', Len(log) + 1, Len(log'))

\* The step is an iteration of the for loop.
IsIteration ==
    /\ pc = "for"
    /\ pc' = "for"
    /\ Len(cycle_trace'.steps) = Len(cycle_trace.steps) + 1

\* C11: a transaction waiting since a failed acquisition attempts an operation
\* in the cycle in which its counter reaches zero, and the operation it attempts
\* after the wait is of the kind, and on the slot, of the one that failed.
C11_RetrySameOperation ==
    LoopDone =>
        \A tid \in cycle_trace.waiting0 :
            LET failed == cycle_trace.failed_op0[tid]
                mine == {k \in StepsOf(tid) :
                            cycle_trace.steps[k].inst = failed.inst}
            IN  /\ Counter(cycle_trace.blocked, tid) = 1 =>
                       \E k \in mine : ~cycle_trace.steps[k].skipped
                /\ \A k \in mine :
                       ~cycle_trace.steps[k].skipped =>
                           /\ cycle_trace.steps[k].did = failed.did
                           /\ cycle_trace.steps[k].is_write = failed.is_write

\* C12: with rollback_prob = 1.0 no Commit record is ever appended, and every
\* iteration that attempts an operation ends in a rollback.
C12_AlwaysRollback ==
    args.rollback_prob = 2 =>
        /\ \A i \in 1 .. Len(log) : ~IsCommit(log[i])
        /\ \A k \in 1 .. Len(cycle_trace.steps) :
               ~cycle_trace.steps[k].skipped => cycle_trace.steps[k].ended = "R"
        /\ CycleDone => active_transactions = <<>>

\* C12 witness: a run with rollback_prob = 1.0 and trans_size = 1 has ended with
\* the Rollback records of two transactions in its log.
C12_Witness ==
    /\ args.rollback_prob = 2
    /\ args.trans_size = 1
    /\ pc = "done"
    /\ Cardinality({i \in 1 .. Len(log) : IsRollback(log[i])}) >= 2

\* start_prob = 1.0, write_prob = 1.0, rollback_prob = 0.0, trans_size = 1.
WriteAndCommitArgs ==
    /\ args.start_prob = 2
    /\ args.write_prob = 2
    /\ args.rollback_prob = 0
    /\ args.trans_size = 1

\* C13: with start_prob = 1.0, write_prob = 1.0, rollback_prob = 0.0 and
\* trans_size = 1, after every cycle and at the end of the run the log is one
\* Start, Write, Commit triple of one transaction per cycle made, no transaction
\* is left active, and the slots holding 1 are exactly the slots the Write
\* records name (so at most as many as cycles).
C13_WriteAndCommitEachCycle ==
    (WriteAndCommitArgs /\ pc \in {"while", "done"}) =>
        /\ Len(log) = 3 * cycle
        /\ pc = "done" => cycle = args.cycles
        /\ active_transactions = <<>>
        /\ \A k \in 0 .. (cycle - 1) :
               /\ IsStart(log[3 * k + 1])
               /\ IsWrite(log[3 * k + 2])
               /\ IsCommit(log[3 * k + 3])
               /\ log[3 * k + 2][1] = log[3 * k + 1][1]
               /\ log[3 * k + 3][1] = log[3 * k + 1][1]
        /\ \A d \in Slots :
               db[d] = 1 <=> \E k \in 0 .. (cycle - 1) : log[3 * k + 2][2] = py_str(d)
        /\ \A d \in Slots : db[d] \in {0, 1}
        /\ Cardinality({d \in Slots : db[d] = 1}) <= cycle

\* C13 witness: such a run of two or more cycles has ended with two slots set.
C13_Witness ==
    /\ WriteAndCommitArgs
    /\ pc = "done"
    /\ cycle >= 2
    /\ Cardinality({d \in Slots : db[d] = 1}) = 2

\* The Read/Write records of the transaction whose Start record is log[i]: those
\* of its tid up to the next terminal or Start record of that tid.
OperationsFrom(lg, i) ==
    LET ends == {j \in (i + 1) .. Len(lg) :
                    /\ lg[j][1] = lg[i][1]
                    /\ (IsTerminal(lg[j]) \/ IsStart(lg[j]))}
        stop == IF ends = {} THEN Len(lg) + 1
                ELSE CHOOSE j \in ends : \A k \in ends : j <= k
    IN  {j \in (i + 1) .. (stop - 1) :
            lg[j][1] = lg[i][1] /\ (IsRead(lg[j]) \/ IsWrite(lg[j]))}

\* C14: no transaction has more than trans_size Read/Write records between its
\* Start record and its terminal record.
C14_TransSizeBoundsOperations ==
    \A i \in 1 .. Len(log) :
        IsStart(log[i]) => Cardinality(OperationsFrom(log, i)) <= args.trans_size

\* C15: a slot of the store changes, and a Write record is appended, only in an
\* iteration whose transaction was granted the exclusive lock on that slot: the
\* slot had no holder before, and at the write the transaction is its exclusive
\* holder and its shared set is empty.
C15_WriteUnderExclusiveLock ==
    [][/\ \A i \in 1 .. Len(NewRecords) :
              IsWrite(NewRecords[i]) =>
                  LET step == Last(cycle_trace'.steps)
                  IN  /\ IsIteration
                      /\ ~step.skipped /\ step.is_write /\ step.acquired
                      /\ NewRecords[i][1] = py_str(step.tid)
                      /\ NewRecords[i][2] = py_str(step.did)
                      /\ step.tid = Head(pending)
                      /\ lock_manager.exclusive_locks[step.did] = None
                      /\ lock_manager.shared_locks[step.did] = {}
                      /\ step.holder = step.tid
                      /\ step.sharers = {}
                      /\ step.ended = "none" =>
                             /\ lock_manager'.exclusive_locks[step.did] = step.tid
                             /\ lock_manager'.shared_locks[step.did] = {}
                      /\ db'[step.did] = 1
       /\ \A d \in Slots :
              db'[d] # db[d] =>
                  \E i \in 1 .. Len(NewRecords) :
                      IsWrite(NewRecords[i]) /\ NewRecords[i][2] = py_str(d)
      ]_vars

\* C15 witness: a transaction has written a slot this cycle and still holds the
\* exclusive lock on it, while another slot is shared-locked.
C15_Witness ==
    /\ pc = "for"
    /\ \E k \in 1 .. Len(cycle_trace.steps) :
           LET step == cycle_trace.steps[k]
           IN  /\ step.is_write /\ step.acquired /\ step.ended = "none"
               /\ lock_manager.exclusive_locks[step.did] = step.tid
               /\ db[step.did] = 1
    /\ \E d \in Slots : lock_manager.shared_locks[d] # {}

\* C16: a transaction admitted in a cycle is not blocked at its admission and
\* attempts an operation in the iteration the for loop makes for it (the last
\* one) in that cycle.
C16_AdmittedIsActive ==
    (pc = "for" /\ cycle_trace.admitted # None) =>
        /\ Counter(cycle_trace.blocked, cycle_trace.admitted) = 0
        /\ LoopDone =>
               /\ Last(cycle_trace.steps).tid = cycle_trace.admitted
               /\ ~Last(cycle_trace.steps).skipped

\* C17: an iteration whose lock acquisition fails appends no Commit or Rollback
\* record, releases no lock and leaves the transaction in the active list.
C17_FailureEndsIteration ==
    [][(IsIteration /\ ~Last(cycle_trace'.steps).skipped
                    /\ ~Last(cycle_trace'.steps).acquired) =>
           /\ \A i \in 1 .. Len(NewRecords) : ~IsTerminal(NewRecords[i])
           /\ lock_manager' = lock_manager
           /\ active_transactions' = active_transactions
      ]_vars

\* The lock r, taken by one admitted transaction, is in the lock table lm.
InTable(lm, r) ==
    IF r.exclusive THEN lm.exclusive_locks[r.slot] = r.tid
    ELSE r.tid \in lm.shared_locks[r.slot]

\* C18: the commit or rollback of one transaction removes no lock held by a
\* different transaction that is still active.
C18_LocksSurviveOthersEnd ==
    [][(IsIteration /\ Last(cycle_trace'.steps).ended # "none") =>
           \A r \in cycle_trace.lock_inst :
               (/\ r.inst # Last(cycle_trace'.steps).inst
                /\ r.inst \in Range(cycle_trace'.inst_active)
                /\ InTable(lock_manager, r))
                   => InTable(lock_manager', r)
      ]_vars

\* C19: after every step, every tid that is the exclusive holder or a shared
\* holder of a slot is in the active list; the iteration that appends the
\* terminal record of a transaction leaves no lock of its tid in the table and
\* takes one entry of its tid off the active list; no other step shortens the
\* list.
C19_NoLockOutlivesTransaction ==
    [][/\ \A d \in Slots :
              /\ lock_manager'.exclusive_locks[d] # None =>
                     lock_manager'.exclusive_locks[d] \in Range(active_transactions')
              /\ lock_manager'.shared_locks[d] \subseteq Range(active_transactions')
       /\ \A i \in 1 .. Len(NewRecords) :
              IsTerminal(NewRecords[i]) =>
                  LET tid == Head(pending)
                  IN  /\ IsIteration
                      /\ NewRecords[i][1] = py_str(tid)
                      /\ i = Len(NewRecords)
                      /\ \A d \in Slots : ~Holds(lock_manager', tid, d)
                      /\ Occurrences(active_transactions', tid) =
                             Occurrences(active_transactions, tid) - 1
                      /\ Len(active_transactions') = Len(active_transactions) - 1
       /\ (\A i \in 1 .. Len(NewRecords) : ~IsTerminal(NewRecords[i])) =>
              Len(active_transactions') >= Len(active_transactions)
      ]_vars

\* C19 witness: a transaction that had taken a lock was committed or rolled back
\* in this cycle while another transaction, still active, holds a lock.
C19_Witness ==
    /\ pc = "for"
    /\ \E k \in 1 .. Len(cycle_trace.steps) :
           /\ cycle_trace.steps[k].acquired
           /\ cycle_trace.steps[k].ended # "none"
           /\ \A d \in Slots : ~Holds(lock_manager, cycle_trace.steps[k].tid, d)
    /\ \E d \in Slots : \E tid \in Range(active_transactions) :
           Holds(lock_manager, tid, d)

===========================================================================
